---------------------------- MODULE Spec2Model ----------------------------
(***************************************************************************)
(* A model of Data/ultimate_fetcher.py: the league resolver                *)
(* (find_danish_league), the season resolver (find_season), the paginated  *)
(* fetch (fetch_all_fixtures), the goal extractor                          *)
(* (_extract_goals_from_fixture), the normalizer (parse_fixtures) and the  *)
(* multi-season loop of main.                                              *)
(*                                                                         *)
(* The program is single-threaded and each function is checked under a     *)
(* specification of its own (SpecLeague, SpecSeason, SpecFetch, SpecGoals, *)
(* SpecParse, SpecMain): the inputs and the answers of the network are     *)
(* drawn from bounded sets, the code runs on them.                         *)
(***************************************************************************)
EXTENDS Integers, Sequences, FiniteSets, TLC

VARIABLES
    \* find_danish_league
    leagues, league_pc, league_id,
    \* find_season
    seasons, probe_order, season_pc, probes, season_id,
    \* fetch_all_fixtures
    max_pages, page, fixtures, requests, fetch_pc, fetch_result,
    \* _extract_goals_from_fixture
    fixture, goals_pc, goals,
    \* parse_fixtures
    raw, pos, rows, row_src, parse_pc,
    \* main
    season_ids, sidx, all_fixtures, fetch_log, main_pc, handed

leagueVars == <<leagues, league_pc, league_id>>
seasonVars == <<seasons, probe_order, season_pc, probes, season_id>>
fetchVars == <<max_pages, page, fixtures, requests, fetch_pc, fetch_result>>
goalsVars == <<fixture, goals_pc, goals>>
parseVars == <<raw, pos, rows, row_src, parse_pc>>
mainVars == <<season_ids, sidx, all_fixtures, fetch_log, main_pc, handed>>
vars == <<leagueVars, seasonVars, fetchVars, goalsVars, parseVars, mainVars>>

\* Python's None where a function returns an id or None (ids are positive).
None == -1

-----------------------------------------------------------------------------
(***************************************************************************)
(* Strings are sequences of characters, so that lower(), strip(), the `in` *)
(* test, split('-'), int() and the regular expression are computed.        *)
(***************************************************************************)

UpperChars == <<"A","B","C","D","E","F","G","H","I","J","K","L","M",
                "N","O","P","Q","R","S","T","U","V","W","X","Y","Z">>
LowerChars == <<"a","b","c","d","e","f","g","h","i","j","k","l","m",
                "n","o","p","q","r","s","t","u","v","w","x","y","z">>

\* str.lower() on one character
LowerChar(c) ==
    IF \E i \in 1..Len(UpperChars) : UpperChars[i] = c
    THEN LowerChars[CHOOSE i \in 1..Len(UpperChars) : UpperChars[i] = c]
    ELSE c

\* str.lower()
Lower(s) == [i \in 1..Len(s) |-> LowerChar(s[i])]

IsSpace(c) == c = " "

\* str.strip(): leading and trailing whitespace removed
Strip(s) ==
    LET keep == {i \in 1..Len(s) : ~IsSpace(s[i])}
    IN  IF keep = {} THEN <<>>
        ELSE LET lo == CHOOSE i \in keep : \A j \in keep : i <= j
                 hi == CHOOSE i \in keep : \A j \in keep : j <= i
             IN  SubSeq(s, lo, hi)

\* sub in s
Contains(sub, s) ==
    \E i \in 0..(Len(s) - Len(sub)) : SubSeq(s, i + 1, i + Len(sub)) = sub

-----------------------------------------------------------------------------
(***************************************************************************)
(* JSON values as the API returns them: every value is a record of one     *)
(* shape, t its type; a mapping keeps its keys in k and its values in l,   *)
(* in insertion order, a list keeps its items in l.                        *)
(***************************************************************************)

Null == [t |-> "null", n |-> 0, s |-> <<>>, k |-> <<>>, l |-> <<>>]
Num(i) == [t |-> "num", n |-> i, s |-> <<>>, k |-> <<>>, l |-> <<>>]
Str(cs) == [t |-> "str", n |-> 0, s |-> cs, k |-> <<>>, l |-> <<>>]
List(items) == [t |-> "list", n |-> 0, s |-> <<>>, k |-> <<>>, l |-> items]
Dict(keys, vals) == [t |-> "dict", n |-> 0, s |-> <<>>, k |-> keys, l |-> vals]

IsDict(v) == v.t = "dict"
IsList(v) == v.t = "list"
IsStr(v) == v.t = "str"
\* isinstance(v, (int, float))
IsNumber(v) == v.t = "num"

\* key in d, for a mapping d
HasKey(d, key) == \E i \in 1..Len(d.k) : d.k[i] = key

\* d[key], for a mapping d that has the key
Item(d, key) == d.l[CHOOSE i \in 1..Len(d.k) : d.k[i] = key]

\* d.get(key, default), for a mapping d
Get(d, key, default) == IF HasKey(d, key) THEN Item(d, key) ELSE default

\* Python's truth value of a JSON value
Truthy(v) ==
    CASE v.t = "null" -> FALSE
      [] v.t = "num" -> v.n /= 0
      [] v.t = "str" -> v.s /= <<>>
      [] OTHER -> v.l /= <<>>

\* a or b
Or(a, b) == IF Truthy(a) THEN a ELSE b

-----------------------------------------------------------------------------
(***************************************************************************)
(* find_danish_league                                                      *)
(***************************************************************************)

MaxLeagues == 3

SUPERLIGA == <<"s","u","p","e","r","l","i","g","a">>
SUPER == <<"s","u","p","e","r">>
PLAY == <<"p","l","a","y">>
DENMARK == <<"d","e","n","m","a","r","k">>

\* The names a league of the response may carry (None: the name is null).
LeagueNames ==
    { Str(<<"S","u","p","e","r","l","i","g","a">>),
      Str(<<"S","u","p","e","r","l","i","g","a"," ","P","l","a","y","-","o","f","f","s">>),
      Str(<<" ","S","U","P","E","R","L","I","G","A"," ">>),
      Str(<<"S","u","p","e","r"," ","C","u","p">>),
      Str(<<"S","u","p","e","r"," ","P","L","A","Y">>),
      Str(<<"D","e","n","m","a","r","k"," ","1">>),
      Str(<<"D","e","n","m","a","r","k"," ","P","l","a","y">>),
      Str(<<"L","i","g","a">>),
      Null }

\* (league.get("name", "") or "")
LeagueName(league) == Or(league.name, Str(<<>>)).s

\* The condition of each of the four loops.
Tier1(league) ==
    LET league_name == Lower(LeagueName(league))
    IN  Contains(SUPERLIGA, league_name) /\ ~Contains(PLAY, league_name)

Tier2(league) ==
    LET league_name == Lower(Strip(LeagueName(league)))
    IN  league_name = SUPERLIGA

Tier3(league) ==
    LET league_name == Lower(LeagueName(league))
    IN  Contains(SUPER, league_name) /\ ~Contains(PLAY, league_name)

Tier4(league) ==
    LET league_name == Lower(LeagueName(league))
    IN  Contains(DENMARK, league_name)

TierMatches(t, league) ==
    CASE t = 1 -> Tier1(league)
      [] t = 2 -> Tier2(league)
      [] t = 3 -> Tier3(league)
      [] OTHER -> Tier4(league)

\* One `for league in leagues` loop: the id of the first league of the list,
\* from position i on, that meets the loop's condition.
RECURSIVE ScanTier(_, _, _)
ScanTier(t, ls, i) ==
    IF i > Len(ls) THEN None
    ELSE IF TierMatches(t, ls[i]) THEN ls[i].id
    ELSE ScanTier(t, ls, i + 1)

\* ScanTiers as one loop that tests the four conditions on each league: the
\* position in the list wins over the tier.
RECURSIVE ScanAnyTier(_, _)
ScanAnyTier(t, ls) ==
    IF t > Len(ls) THEN None
    ELSE IF \E tier \in 1..4 : TierMatches(tier, ls[t]) THEN ls[t].id
    ELSE ScanAnyTier(t + 1, ls)

\* The four loops one after the other, each returning at its first match.
RECURSIVE ScanTiers(_, _)
ScanTiers(t, ls) ==
    IF t > 4 THEN None
    ELSE LET found == ScanTier(t, ls, 1)
         IN  IF found /= None THEN found ELSE ScanTiers(t + 1, ls)

\* The leagues of a response: ids are distinct.
LeagueLists ==
    UNION { [1..n -> LeagueNames] : n \in 0..MaxLeagues }

LeagueInit ==
    /\ leagues \in { [i \in 1..Len(names) |-> [id |-> 100 + i, name |-> names[i]]] :
                     names \in LeagueLists }
    /\ league_pc = "start"
    /\ league_id = None

LeagueIdle ==
    /\ leagues = <<>>
    /\ league_pc = "idle"
    /\ league_id = None

\* The request fails (status other than 200, or requests.get raises).
LeagueRequestFails ==
    /\ league_pc = "start"
    /\ league_pc' = "failed"
    /\ league_id' = None
    /\ UNCHANGED <<leagues, seasonVars, fetchVars, goalsVars, parseVars, mainVars>>

\* The request answers 200 with the list `leagues`.
FindDanishLeague ==
    /\ league_pc = "start"
    /\ league_pc' = "done"
    /\ league_id' = ScanTiers(1, leagues)
    /\ UNCHANGED <<leagues, seasonVars, fetchVars, goalsVars, parseVars, mainVars>>

NextLeague ==
    \/ LeagueRequestFails
    \/ FindDanishLeague

-----------------------------------------------------------------------------
(***************************************************************************)
(* find_season                                                             *)
(***************************************************************************)

MaxSeasons == 3

Digits == <<"0","1","2","3","4","5","6","7","8","9">>
IsDigit(c) == \E i \in 1..Len(Digits) : Digits[i] = c
DigitValue(c) == (CHOOSE i \in 1..Len(Digits) : Digits[i] = c) - 1

\* Python compares strings character by character, by code point.
CharCode(c) ==
    IF IsDigit(c) THEN 48 + DigitValue(c)
    ELSE IF c = " " THEN 32
    ELSE IF c = "-" THEN 45
    ELSE 63

\* a < b for strings
RECURSIVE StrLess(_, _)
StrLess(a, b) ==
    IF b = <<>> THEN FALSE
    ELSE IF a = <<>> THEN TRUE
    ELSE IF CharCode(Head(a)) /= CharCode(Head(b))
         THEN CharCode(Head(a)) < CharCode(Head(b))
    ELSE StrLess(Tail(a), Tail(b))

\* The values of starting_at: ISO dates, or the key missing (key '' in the sort).
StartDates ==
    { <<"2","0","2","2","-","0","1","-","0","1">>,
      <<"2","0","2","3","-","0","1","-","0","1">>,
      <<"2","0","2","4","-","0","1","-","0","1">>,
      <<>> }

\* key=lambda s: s.get('starting_at', '')
SortKey(s) == s.starting_at

\* sorted(seasons, key=..., reverse=True): descending, and stable (seasons of
\* equal key keep their order). x is put behind every season whose key is not
\* smaller than its own.
RECURSIVE InsertDescending(_, _)
InsertDescending(x, sorted) ==
    IF sorted = <<>> THEN <<x>>
    ELSE IF StrLess(SortKey(Head(sorted)), SortKey(x))
         THEN <<x>> \o sorted
    ELSE <<Head(sorted)>> \o InsertDescending(x, Tail(sorted))

RECURSIVE SortedDescending(_, _)
SortedDescending(ss, acc) ==
    IF ss = <<>> THEN acc
    ELSE SortedDescending(Tail(ss), InsertDescending(Head(ss), acc))

\* The loop of lines 144-148: current_season is assigned at every season
\* with is_current, other_seasons collects the seasons without it.
RECURSIVE SplitCurrent(_, _, _)
SplitCurrent(ss, current_season, other_seasons) ==
    IF ss = <<>> THEN [current_season |-> current_season, other_seasons |-> other_seasons]
    ELSE IF Head(ss).is_current
         THEN SplitCurrent(Tail(ss), <<Head(ss)>>, other_seasons)
    ELSE SplitCurrent(Tail(ss), current_season, Append(other_seasons, Head(ss)))

\* Lines 138-152 (prefer_current is True): current_season is <<>> for None.
ProbeOrder(ss) ==
    LET sorted == SortedDescending(ss, <<>>)
        split == SplitCurrent(sorted, <<>>, <<>>)
    IN  IF split.current_season /= <<>>
        THEN split.current_season \o split.other_seasons
        ELSE sorted

SeasonLists ==
    UNION { [1..n -> StartDates \X BOOLEAN] : n \in 0..MaxSeasons }

SeasonInit ==
    /\ seasons \in { [i \in 1..Len(l) |->
                        [id |-> 200 + i, starting_at |-> l[i][1], is_current |-> l[i][2]]] :
                     l \in SeasonLists }
    /\ probe_order = <<>>
    /\ season_pc = "start"
    /\ probes = <<>>
    /\ season_id = None

SeasonIdle ==
    /\ seasons = <<>>
    /\ probe_order = <<>>
    /\ season_pc = "idle"
    /\ probes = <<>>
    /\ season_id = None

notSeason == <<leagueVars, fetchVars, goalsVars, parseVars, mainVars>>

\* The league request fails (status other than 200, or requests.get raises).
SeasonRequestFails ==
    /\ season_pc = "start"
    /\ season_pc' = "failed"
    /\ season_id' = None
    /\ UNCHANGED <<seasons, probe_order, probes, notSeason>>

\* The league request answers 200 with no seasons.
NoSeasons ==
    /\ season_pc = "start"
    /\ seasons = <<>>
    /\ season_pc' = "done"
    /\ season_id' = None
    /\ UNCHANGED <<seasons, probe_order, probes, notSeason>>

\* The league request answers 200 with `seasons`: they are ordered for the probes.
OrderSeasons ==
    /\ season_pc = "start"
    /\ seasons /= <<>>
    /\ probe_order' = ProbeOrder(seasons)
    /\ season_pc' = "probing"
    /\ UNCHANGED <<seasons, probes, season_id, notSeason>>

\* for season in seasons: the season the loop is at
NextCandidate == probe_order[Len(probes) + 1]

\* ProbeAccessible with `if fixtures:` around the return: a season that
\* answers 200 with no fixture is passed over.
ProbeAccessibleWithFixturesOnly ==
    /\ season_pc = "probing"
    /\ Len(probes) < Len(probe_order)
    /\ \E n \in 0..1 :
         /\ probes' = Append(probes, [id |-> NextCandidate.id, status |-> 200, count |-> n])
         /\ IF n > 0
            THEN season_id' = NextCandidate.id /\ season_pc' = "done"
            ELSE UNCHANGED <<season_id, season_pc>>
    /\ UNCHANGED <<seasons, probe_order, notSeason>>

\* The probe answers 200 with n fixtures: the season is returned.
ProbeAccessible ==
    /\ season_pc = "probing"
    /\ Len(probes) < Len(probe_order)
    /\ \E n \in 0..1 :
         probes' = Append(probes, [id |-> NextCandidate.id, status |-> 200, count |-> n])
    /\ season_id' = NextCandidate.id
    /\ season_pc' = "done"
    /\ UNCHANGED <<seasons, probe_order, notSeason>>

\* The probe answers another status: the loop goes on.
ProbeNotAccessible ==
    /\ season_pc = "probing"
    /\ Len(probes) < Len(probe_order)
    /\ \E st \in {403, 404} :
         probes' = Append(probes, [id |-> NextCandidate.id, status |-> st, count |-> 0])
    /\ UNCHANGED <<seasons, probe_order, season_pc, season_id, notSeason>>

\* requests.get raises (timeout, connection error): the outer except returns None.
ProbeRaises ==
    /\ season_pc = "probing"
    /\ Len(probes) < Len(probe_order)
    /\ probes' = Append(probes, [id |-> NextCandidate.id, status |-> 0, count |-> 0])
    /\ season_id' = None
    /\ season_pc' = "failed"
    /\ UNCHANGED <<seasons, probe_order, notSeason>>

\* The loop ends without a return.
NoAccessibleSeason ==
    /\ season_pc = "probing"
    /\ Len(probes) = Len(probe_order)
    /\ season_id' = None
    /\ season_pc' = "done"
    /\ UNCHANGED <<seasons, probe_order, probes, notSeason>>

NextSeason ==
    \/ SeasonRequestFails
    \/ NoSeasons
    \/ OrderSeasons
    \/ ProbeAccessible
    \/ ProbeNotAccessible
    \/ ProbeRaises
    \/ NoAccessibleSeason

-----------------------------------------------------------------------------
(***************************************************************************)
(* fetch_all_fixtures                                                      *)
(***************************************************************************)

\* The largest --max-pages the model draws (0 = unlimited; argparse takes any
\* int, so a negative one is drawn too).
MaxPagesArg == 3
\* The number of pages the service holds at most: no page past it has more.
MaxServerPages == 3
\* The largest number of fixtures the model puts on a page.
MaxBatch == 2

\* What a call returns: None, or the list of fixtures.
ReturnNone == [none |-> TRUE, val |-> <<>>]
ReturnList(l) == [none |-> FALSE, val |-> l]

\* The fixtures of page p: fixture j of page p is named 10 * p + j.
Batches(p) == { [j \in 1..n |-> 10 * p + j] : n \in 0..MaxBatch }

FetchInit ==
    /\ max_pages \in (0 - 1)..MaxPagesArg
    /\ page = 1
    /\ fixtures = <<>>
    /\ requests = <<>>
    /\ fetch_pc = "loop"
    /\ fetch_result = ReturnNone

FetchIdle ==
    /\ max_pages = 0
    /\ page = 1
    /\ fixtures = <<>>
    /\ requests = <<>>
    /\ fetch_pc = "idle"
    /\ fetch_result = ReturnNone

notFetch == <<leagueVars, seasonVars, goalsVars, parseVars, mainVars>>

\* CapReached with >= for >: the cap is taken one page early.
CapReachedOnePageEarly == max_pages /= 0 /\ page >= max_pages

\* if max_pages and page > max_pages
CapReached == max_pages /= 0 /\ page > max_pages

\* The cap is reached: break, and the fixtures so far are returned.
StopAtMaxPages ==
    /\ fetch_pc = "loop"
    /\ CapReached
    /\ fetch_pc' = "done"
    /\ fetch_result' = ReturnList(fixtures)
    /\ UNCHANGED <<max_pages, page, fixtures, requests, notFetch>>

\* What a page that answers 200 leaves behind: with has_more the loop goes to
\* the next page, without it the fixtures are returned.
AfterPage(batch, has_more) ==
    /\ fixtures' = fixtures \o batch
    /\ IF has_more
       THEN /\ page' = page + 1
            /\ UNCHANGED <<fetch_pc, fetch_result>>
       ELSE /\ fetch_pc' = "done"
            /\ fetch_result' = ReturnList(fixtures \o batch)
            /\ UNCHANGED page

\* Page `page` is requested and answers 200 with a batch and has_more.
PageArrives ==
    /\ fetch_pc = "loop"
    /\ ~CapReached
    /\ \E batch \in Batches(page), has_more \in BOOLEAN :
         /\ has_more => page < MaxServerPages
         /\ requests' = Append(requests,
                [page |-> page, ok |-> TRUE, batch |-> batch, has_more |-> has_more])
         /\ AfterPage(batch, has_more)
    /\ UNCHANGED <<max_pages, notFetch>>

\* AfterFailure with `break` for `return None`: the pages so far are returned.
AfterFailureKeepsPages ==
    /\ fetch_pc' = "done"
    /\ fetch_result' = ReturnList(fixtures)

\* What a failed page leaves behind: return None.
AfterFailure ==
    /\ fetch_pc' = "done"
    /\ fetch_result' = ReturnNone

\* Page `page` is requested and fails: a status other than 200, or an exception
\* (requests.get, response.json()), which the except clause turns into None.
PageFails ==
    /\ fetch_pc = "loop"
    /\ ~CapReached
    /\ requests' = Append(requests,
           [page |-> page, ok |-> FALSE, batch |-> <<>>, has_more |-> FALSE])
    /\ AfterFailure
    /\ UNCHANGED <<max_pages, page, fixtures, notFetch>>

NextFetch ==
    \/ StopAtMaxPages
    \/ PageArrives
    \/ PageFails

-----------------------------------------------------------------------------
(***************************************************************************)
(* main: steps 1 to 4                                                      *)
(***************************************************************************)

\* The largest number of --season-id values the model draws.
MaxSeasonIds == 3
\* The largest number of fixtures a season's fetch returns in the model.
MaxSeasonFixtures == 2

\* What fetch_all_fixtures(sid) may return for the i-th season of the list:
\* None, or a list of fixtures (fixture j of it is named 10 * i + j).
FetchReturns(i) ==
    {ReturnNone} \cup { ReturnList([j \in 1..n |-> 10 * i + j]) : n \in 0..MaxSeasonFixtures }

\* season_ids starts as the values of --season-id (<<>>: the option is absent).
MainInit ==
    /\ season_ids \in UNION { [1..n -> 301..302] : n \in 0..MaxSeasonIds }
    /\ sidx = 1
    /\ all_fixtures = <<>>
    /\ fetch_log = <<>>
    /\ main_pc = "find_league"
    /\ handed = <<>>

MainIdle ==
    /\ season_ids = <<>>
    /\ sidx = 1
    /\ all_fixtures = <<>>
    /\ fetch_log = <<>>
    /\ main_pc = "idle"
    /\ handed = <<>>

notMain == <<leagueVars, seasonVars, fetchVars, goalsVars, parseVars>>

\* Step 1: find_danish_league() returns None: main returns False.
MainNoLeague ==
    /\ main_pc = "find_league"
    /\ main_pc' = "return_false"
    /\ UNCHANGED <<season_ids, sidx, all_fixtures, fetch_log, handed, notMain>>

\* Steps 1 and 2: a league is found, the season ids are those of --season-id.
MainUseSeasonIds ==
    /\ main_pc = "find_league"
    /\ season_ids /= <<>>
    /\ main_pc' = "fetch"
    /\ UNCHANGED <<season_ids, sidx, all_fixtures, fetch_log, handed, notMain>>

\* Steps 1 and 2: a league is found, --season-id is absent and find_season
\* returns a season id.
MainFindSeason ==
    /\ main_pc = "find_league"
    /\ season_ids = <<>>
    /\ \E sid \in 301..302 : season_ids' = <<sid>>
    /\ main_pc' = "fetch"
    /\ UNCHANGED <<sidx, all_fixtures, fetch_log, handed, notMain>>

\* Steps 1 and 2: a league is found, --season-id is absent and find_season
\* returns None: main returns False.
MainNoSeason ==
    /\ main_pc = "find_league"
    /\ season_ids = <<>>
    /\ main_pc' = "return_false"
    /\ UNCHANGED <<season_ids, sidx, all_fixtures, fetch_log, handed, notMain>>

\* Collect with an assignment for extend: a season's fixtures replace those
\* of the seasons before it.
CollectOverwrites(all, r) == IF ~r.none /\ r.val /= <<>> THEN r.val ELSE all

\* if fixtures: all_fixtures.extend(fixtures)
Collect(all, r) == IF ~r.none /\ r.val /= <<>> THEN all \o r.val ELSE all

\* Step 3, one turn of `for sid in season_ids`.
FetchSeason ==
    /\ main_pc = "fetch"
    /\ sidx <= Len(season_ids)
    /\ \E r \in FetchReturns(sidx) :
         /\ fetch_log' = Append(fetch_log, [sid |-> season_ids[sidx], returned |-> r])
         /\ all_fixtures' = Collect(all_fixtures, r)
    /\ sidx' = sidx + 1
    /\ UNCHANGED <<season_ids, main_pc, handed, notMain>>

\* After the loop: if not all_fixtures, main returns False.
MainNoFixtures ==
    /\ main_pc = "fetch"
    /\ sidx > Len(season_ids)
    /\ all_fixtures = <<>>
    /\ main_pc' = "return_false"
    /\ UNCHANGED <<season_ids, sidx, all_fixtures, fetch_log, handed, notMain>>

\* Step 4: parse_fixtures(all_fixtures).
MainParse ==
    /\ main_pc = "fetch"
    /\ sidx > Len(season_ids)
    /\ all_fixtures /= <<>>
    /\ handed' = all_fixtures
    /\ main_pc' = "parse"
    /\ UNCHANGED <<season_ids, sidx, all_fixtures, fetch_log, notMain>>

NextMain ==
    \/ MainNoLeague
    \/ MainUseSeasonIds
    \/ MainFindSeason
    \/ MainNoSeason
    \/ FetchSeason
    \/ MainNoFixtures
    \/ MainParse

-----------------------------------------------------------------------------
(***************************************************************************)
(* Scores written as text: int(), split('-') and the regular expression    *)
(***************************************************************************)

\* The value of the digits s[i..j]
RECURSIVE NumberOf(_, _, _)
NumberOf(s, i, j) ==
    IF j < i THEN 0 ELSE 10 * NumberOf(s, i, j - 1) + DigitValue(s[j])

\* int(text) for a string: surrounding whitespace and one sign are accepted,
\* anything but digits after them raises ValueError (ok = FALSE).
IntOfStr(text) ==
    LET t == Strip(text)
        signed == t /= <<>> /\ Head(t) \in {"-", "+"}
        d == IF signed THEN Tail(t) ELSE t
    IN  IF d /= <<>> /\ \A i \in 1..Len(d) : IsDigit(d[i])
        THEN [ok |-> TRUE,
              n |-> IF signed /\ Head(t) = "-" THEN 0 - NumberOf(d, 1, Len(d))
                    ELSE NumberOf(d, 1, Len(d))]
        ELSE [ok |-> FALSE, n |-> 0]

\* int(v) for a JSON value: a number is itself, a string is parsed, any other
\* value raises TypeError (ok = FALSE).
IntOf(v) ==
    CASE v.t = "num" -> [ok |-> TRUE, n |-> v.n]
      [] v.t = "str" -> IntOfStr(v.s)
      [] OTHER -> [ok |-> FALSE, n |-> 0]

\* What a strategy ends with: it returns a pair, it finds nothing (the next
\* strategy runs), or it raises.
Ret(h, a) == [kind |-> "ret", h |-> h, a |-> a]
Miss == [kind |-> "miss", h |-> 0, a |-> 0]
Raise == [kind |-> "raise", h |-> 0, a |-> 0]

\* sc.split('-'): parts[0] and parts[1], for a string that holds a '-'
SplitDash(sc) ==
    LET dashes == {i \in 1..Len(sc) : sc[i] = "-"}
        d1 == CHOOSE i \in dashes : \A j \in dashes : i <= j
        rest == {i \in dashes : i > d1}
        d2 == IF rest = {} THEN Len(sc) + 1
              ELSE CHOOSE i \in rest : \A j \in rest : i <= j
    IN  <<SubSeq(sc, 1, d1 - 1), SubSeq(sc, d1 + 1, d2 - 1)>>

\* if isinstance(sc, str) and '-' in sc: try: return int(parts[0].strip()),
\* int(parts[1].strip()) except Exception: pass
ScoreString(sc) ==
    IF IsStr(sc) /\ Contains(<<"-">>, sc.s)
    THEN LET parts == SplitDash(sc.s)
             h == IntOfStr(parts[1])
             a == IntOfStr(parts[2])
         IN  IF h.ok /\ a.ok THEN Ret(h.n, a.n) ELSE Miss
    ELSE Miss

\* [-:–]
IsSeparator(c) == c \in {"-", ":", "u2013"}

\* The last index of the run of digits that starts at i
DigitRunEnd(s, i) ==
    CHOOSE j \in i..Len(s) :
        /\ \A x \in i..j : IsDigit(s[x])
        /\ (j = Len(s) \/ ~IsDigit(s[j + 1]))

\* The first index from i on that holds no whitespace (Len(s) + 1: none)
SkipSpaces(s, i) ==
    LET rest == {j \in i..Len(s) : ~IsSpace(s[j])}
    IN  IF rest = {} THEN Len(s) + 1 ELSE CHOOSE j \in rest : \A x \in rest : j <= x

\* (\d+)\s*[-:–]\s*(\d+) matched at index i
MatchAt(s, i) ==
    IF ~IsDigit(s[i]) THEN Miss
    ELSE LET e1 == DigitRunEnd(s, i)
             sep == SkipSpaces(s, e1 + 1)
         IN  IF sep > Len(s) \/ ~IsSeparator(s[sep]) THEN Miss
             ELSE LET b2 == SkipSpaces(s, sep + 1)
                  IN  IF b2 > Len(s) \/ ~IsDigit(s[b2]) THEN Miss
                      ELSE Ret(NumberOf(s, i, e1), NumberOf(s, b2, DigitRunEnd(s, b2)))

\* m = re.search(...); if m: return int(m.group(1)), int(m.group(2))
RegexScore(s) ==
    LET hits == {i \in 1..Len(s) : MatchAt(s, i).kind = "ret"}
    IN  IF hits = {} THEN Miss
        ELSE MatchAt(s, CHOOSE i \in hits : \A j \in hits : i <= j)

-----------------------------------------------------------------------------
(***************************************************************************)
(* _extract_goals_from_fixture                                             *)
(***************************************************************************)

CURRENT == <<"C","U","R","R","E","N","T">>
HOME == <<"h","o","m","e">>
AWAY == <<"a","w","a","y">>
EmptyDict == Dict(<<>>, <<>>)
EmptyList == List(<<>>)

\* The loop of lines 254-260 from entry i on, with home_goals and away_goals
\* so far (Null: None). s.get raises when the entry is no mapping,
\* score_data.get raises when its 'score' is no mapping.
RECURSIVE ScanScores(_, _, _, _)
ScanScores(scores, i, home_goals, away_goals) ==
    IF i > Len(scores)
    THEN [raised |-> FALSE, home_goals |-> home_goals, away_goals |-> away_goals]
    ELSE LET s == scores[i]
             raised == [raised |-> TRUE, home_goals |-> Null, away_goals |-> Null]
         IN  IF ~IsDict(s) THEN raised
             ELSE IF Get(s, "description", Null) /= Str(CURRENT)
                  THEN ScanScores(scores, i + 1, home_goals, away_goals)
             ELSE LET score_data == Get(s, "score", EmptyDict)
                  IN  IF ~IsDict(score_data) THEN raised
                      ELSE IF Get(score_data, "participant", Null) = Str(HOME)
                           THEN ScanScores(scores, i + 1,
                                           Get(score_data, "goals", Null), away_goals)
                      ELSE IF Get(score_data, "participant", Null) = Str(AWAY)
                           THEN ScanScores(scores, i + 1, home_goals,
                                           Get(score_data, "goals", Null))
                      ELSE ScanScores(scores, i + 1, home_goals, away_goals)

\* Lines 250-263: the 'CURRENT' entries of the scores list.
ScoresList(f) ==
    LET scores == Get(f, "scores", EmptyList)
    IN  IF IsList(scores) /\ scores.l /= <<>>
        THEN LET r == ScanScores(scores.l, 1, Null, Null)
             IN  IF r.raised THEN Raise
                 ELSE IF r.home_goals /= Null /\ r.away_goals /= Null
                      THEN LET h == IntOf(r.home_goals)
                               a == IntOf(r.away_goals)
                           IN  IF h.ok /\ a.ok THEN Ret(h.n, a.n) ELSE Raise
                 ELSE Miss
        ELSE Miss

direct_home_keys == <<"localteam_score", "local_team_score", "home_score", "home_goals", "home">>
direct_away_keys == <<"visitorteam_score", "visitor_team_score", "away_score", "away_goals", "away">>

\* k in d and isinstance(d[k], (int, float))
NumberAt(d, key) == HasKey(d, key) /\ IsNumber(Item(d, key))

\* The inner loop of lines 272-274, from key j on.
RECURSIVE DirectAway(_, _, _)
DirectAway(f, hk, j) ==
    IF j > Len(direct_away_keys) THEN Miss
    ELSE IF NumberAt(f, direct_away_keys[j])
         THEN Ret(Item(f, hk).n, Item(f, direct_away_keys[j]).n)
    ELSE DirectAway(f, hk, j + 1)

\* Lines 270-274: the direct fields, from home key i on.
RECURSIVE DirectFields(_, _)
DirectFields(f, i) ==
    IF i > Len(direct_home_keys) THEN Miss
    ELSE IF NumberAt(f, direct_home_keys[i])
              /\ DirectAway(f, direct_home_keys[i], 1).kind = "ret"
         THEN DirectAway(f, direct_home_keys[i], 1)
    ELSE DirectFields(f, i + 1)

\* find_pair(d, keys1, keys2), from the keys i and j on (Miss: None)
RECURSIVE find_pair(_, _, _, _, _)
find_pair(d, keys1, keys2, i, j) ==
    IF i > Len(keys1) THEN Miss
    ELSE IF j > Len(keys2) THEN find_pair(d, keys1, keys2, i + 1, 1)
    ELSE IF NumberAt(d, keys1[i]) /\ NumberAt(d, keys2[j])
         THEN Ret(Item(d, keys1[i]).n, Item(d, keys2[j]).n)
    ELSE find_pair(d, keys1, keys2, i, j + 1)

\* [v for v in scores.values() if isinstance(v, (int, float))]
RECURSIVE NumericValues(_)
NumericValues(vals) ==
    IF vals = <<>> THEN <<>>
    ELSE IF IsNumber(Head(vals)) THEN <<Head(vals).n>> \o NumericValues(Tail(vals))
    ELSE NumericValues(Tail(vals))

\* Lines 277-293: scores (or scores_calculated) as a mapping.
ScoresDict(f) ==
    LET scores == Or(Or(Get(f, "scores", Null), Get(f, "scores_calculated", Null)), EmptyDict)
    IN  IF IsDict(scores)
        THEN LET pair == find_pair(scores, <<"home", "local", "localteam", "team1">>,
                                   <<"away", "visitor", "visitorteam", "team2">>, 1, 1)
                 nums == NumericValues(scores.l)
             IN  IF pair.kind = "ret" THEN pair
                 ELSE IF Len(nums) >= 2 THEN Ret(nums[1], nums[2])
                 ELSE Miss
        ELSE Miss

\* Lines 298-311 from scoreboard i on. `hk in sb` or sb.get raises when the
\* scoreboard is no mapping.
RECURSIVE ScanScoreboards(_, _)
ScanScoreboards(sbs, i) ==
    IF i > Len(sbs) THEN Miss
    ELSE LET sb == sbs[i]
         IN  IF ~IsDict(sb) THEN Raise
             ELSE LET pair == find_pair(sb, <<"score_local", "local_score", "home_score", "home">>,
                                        <<"score_visitor", "visitor_score", "away_score", "away">>, 1, 1)
                      sc == Or(Or(Get(sb, "score", Null), Get(sb, "value", Null)),
                               Get(sb, "score_string", Null))
                  IN  IF pair.kind = "ret" THEN pair
                      ELSE IF ScoreString(sc).kind = "ret" THEN ScoreString(sc)
                      ELSE ScanScoreboards(sbs, i + 1)

\* Lines 296-311: the scoreboards list.
Scoreboards(f) ==
    LET sbs == Or(Get(f, "scoreboards", Null), EmptyList)
    IN  IF IsList(sbs) /\ sbs.l /= <<>> THEN ScanScoreboards(sbs.l, 1) ELSE Miss

\* Lines 314-320: the fixture's own score string.
FixtureScoreString(f) ==
    ScoreString(Or(Get(f, "score", Null), Get(f, "scores", Null)))

\* find_score_in_obj(obj): the items of a mapping or of a list from i on
\* (Miss: None). A string is searched only as a value of a mapping.
RECURSIVE find_score_in_obj(_, _)
find_score_in_obj(obj, i) ==
    IF ~(IsDict(obj) \/ IsList(obj)) \/ i > Len(obj.l) THEN Miss
    ELSE LET v == obj.l[i]
             res == IF IsDict(obj) /\ IsStr(v) THEN RegexScore(v.s)
                    ELSE find_score_in_obj(v, 1)
         IN  IF res.kind = "ret" THEN res ELSE find_score_in_obj(obj, i + 1)

\* Lines 357-361: for key in ('participants', 'stats', 'events')
RECURSIVE ScanNested(_, _, _)
ScanNested(f, keys, i) ==
    IF i > Len(keys) THEN Miss
    ELSE LET res == IF HasKey(f, keys[i]) THEN find_score_in_obj(Item(f, keys[i]), 1)
                    ELSE Miss
         IN  IF res.kind = "ret" THEN res ELSE ScanNested(f, keys, i + 1)

\* Lines 323-361: the pattern in result_info / result, then in the nested texts.
TextScan(f) ==
    LET result_text == Or(Or(Get(f, "result_info", Null), Get(f, "result", Null)), Str(<<>>))
        m == IF IsStr(result_text) THEN RegexScore(result_text.s) ELSE Miss
    IN  IF m.kind = "ret" THEN m
        ELSE ScanNested(f, <<"participants", "stats", "events">>, 1)

\* Strategy n of the function, in the order of its text.
Strategy(n, f) ==
    CASE n = 1 -> ScoresList(f)
      [] n = 2 -> DirectFields(f, 1)
      [] n = 3 -> ScoresDict(f)
      [] n = 4 -> Scoreboards(f)
      [] n = 5 -> FixtureScoreString(f)
      [] OTHER -> TextScan(f)

\* The function from strategy n on: a strategy that returns or raises ends
\* it; after the last one, return 0, 0.
RECURSIVE ExtractFrom(_, _)
ExtractFrom(n, f) ==
    IF n > 6 THEN Ret(0, 0)
    ELSE IF Strategy(n, f).kind /= "miss" THEN Strategy(n, f)
    ELSE ExtractFrom(n + 1, f)

extract_goals_from_fixture(f) == ExtractFrom(1, f)

\* A fixture is put together from parts: each part is the keys and values it
\* adds to the mapping (none: the keys are missing).
Part(keys, vals) == [k |-> keys, l |-> vals]
NoPart == Part(<<>>, <<>>)

FixtureOf(parts) ==
    Dict(parts[1].k \o parts[2].k \o parts[3].k \o parts[4].k \o parts[5].k,
         parts[1].l \o parts[2].l \o parts[3].l \o parts[4].l \o parts[5].l)

\* An entry of the scores list of the v3 API.
ScoreEntry(description, participant, goal_count) ==
    Dict(<<"description", "score">>,
         <<Str(description),
           Dict(<<"participant", "goals">>, <<Str(participant), goal_count>>)>>)

SECOND_HALF == <<"2","N","D","_","H","A","L","F">>

\* 'scores' and 'scores_calculated' as the API, or a malformed payload, gives them.
ScoresParts ==
    { NoPart,
      \* a complete CURRENT pair: home 2, away 1
      Part(<<"scores">>, <<List(<<ScoreEntry(CURRENT, HOME, Num(2)),
                                  ScoreEntry(CURRENT, AWAY, Num(1))>>)>>),
      \* the goals as numeric strings
      Part(<<"scores">>, <<List(<<ScoreEntry(CURRENT, AWAY, Str(<<"0">>)),
                                  ScoreEntry(CURRENT, HOME, Str(<<" ","3">>))>>)>>),
      \* only the home side
      Part(<<"scores">>, <<List(<<ScoreEntry(CURRENT, HOME, Num(2))>>)>>),
      \* no CURRENT entry
      Part(<<"scores">>, <<List(<<ScoreEntry(SECOND_HALF, HOME, Num(2)),
                                  ScoreEntry(SECOND_HALF, AWAY, Num(1))>>)>>),
      \* an entry that is no mapping
      Part(<<"scores">>, <<List(<<Num(5)>>)>>),
      \* a complete pair followed by an entry that is no mapping
      Part(<<"scores">>, <<List(<<ScoreEntry(CURRENT, HOME, Num(2)),
                                  ScoreEntry(CURRENT, AWAY, Num(1)), Null>>)>>),
      \* a CURRENT entry whose 'score' is null
      Part(<<"scores">>, <<List(<<Dict(<<"description", "score">>,
                                       <<Str(CURRENT), Null>>)>>)>>),
      \* goals that are not numeric
      Part(<<"scores">>, <<List(<<ScoreEntry(CURRENT, HOME, Str(<<"x">>)),
                                  ScoreEntry(CURRENT, AWAY, Num(1))>>)>>),
      \* a mapping with known keys
      Part(<<"scores">>, <<Dict(<<"away", "home">>, <<Num(0), Num(1)>>)>>),
      \* a mapping with other keys: the first two numbers
      Part(<<"scores">>, <<Dict(<<"ht", "note", "ft">>, <<Num(4), Str(<<"x">>), Num(2)>>)>>),
      \* an empty list, and scores_calculated as a mapping
      Part(<<"scores", "scores_calculated">>,
           <<EmptyList, Dict(<<"local", "visitor">>, <<Num(1), Num(3)>>)>>),
      \* a string
      Part(<<"scores">>, <<Str(<<"2","-","2">>)>>),
      Part(<<"scores">>, <<Null>>) }

FlatParts ==
    { NoPart,
      Part(<<"home_score", "away_score">>, <<Num(9), Num(0)>>),
      Part(<<"home_score">>, <<Num(9)>>),
      Part(<<"home_goals", "home", "away_score">>, <<Str(<<"x">>), Num(4), Num(5)>>) }

ScoreboardParts ==
    { NoPart,
      Part(<<"scoreboards">>, <<List(<<Dict(<<"home_score", "away_score">>,
                                            <<Num(1), Num(1)>>)>>)>>),
      Part(<<"scoreboards">>, <<List(<<Dict(<<"score">>, <<Str(<<"x","-","2">>)>>),
                                       Dict(<<"value">>, <<Str(<<"1"," ","-"," ","0">>)>>)>>)>>),
      \* a scoreboard that is no mapping
      Part(<<"scoreboards">>, <<List(<<Num(5)>>)>>),
      Part(<<"scoreboards">>, <<Null>>) }

ScoreParts ==
    { NoPart,
      Part(<<"score">>, <<Str(<<"4","-","0">>)>>),
      Part(<<"score">>, <<Str(<<"a","-","b">>)>>) }

TextParts ==
    { NoPart,
      Part(<<"result_info">>, <<Str(<<"w","o","n"," ","3","-","1">>)>>),
      Part(<<"result">>, <<Str(<<"1","2"," ",":"," ","7">>)>>),
      Part(<<"events">>, <<List(<<Str(<<"6","-","6">>),
                                  Dict(<<"id", "text">>, <<Num(1), Str(<<"5","u2013","4">>)>>)>>)>>) }

\* The fixtures the extractor is run on: mappings.
GoalFixtures ==
    { FixtureOf(parts) :
        parts \in ScoresParts \X FlatParts \X ScoreboardParts \X ScoreParts \X TextParts }

GoalsInit ==
    /\ fixture \in GoalFixtures
    /\ goals_pc = "call"
    /\ goals = Miss

GoalsIdle ==
    /\ fixture = EmptyDict
    /\ goals_pc = "idle"
    /\ goals = Miss

notGoals == <<leagueVars, seasonVars, fetchVars, parseVars, mainVars>>

\* The call: it returns a pair, and the extraction is done, or it raises.
ExtractGoals ==
    /\ goals_pc = "call"
    /\ goals' = extract_goals_from_fixture(fixture)
    /\ goals_pc' = IF goals'.kind = "raise" THEN "raised" ELSE "returned"
    /\ UNCHANGED <<fixture, notGoals>>

NextGoals == ExtractGoals

-----------------------------------------------------------------------------
(***************************************************************************)
(* parse_fixtures                                                          *)
(***************************************************************************)

\* The largest number of raw fixtures the model hands to parse_fixtures.
MaxFixtures == 3

\* `for x in v`: the items the loop visits. A list gives its items, a string
\* its characters and a mapping its keys (strings, whatever they spell).
Iterable(v) == v.t \in {"list", "str", "dict"}
ItemsOf(v) ==
    CASE v.t = "list" -> v.l
      [] v.t = "str" -> [i \in 1..Len(v.s) |-> Str(<<v.s[i]>>)]
      [] OTHER -> [i \in 1..Len(v.k) |-> Str(<<"k">>)]

NoTeams == [raised |-> FALSE, home_team |-> Null, home_team_name |-> Null,
            away_team |-> Null, away_team_name |-> Null]

\* Lines 420-426 from participant i on. p.get raises when the participant is
\* no mapping, .get("location") raises when its 'meta' is no mapping.
RECURSIVE ScanParticipants(_, _, _)
ScanParticipants(ps, i, acc) ==
    IF i > Len(ps) THEN acc
    ELSE LET p == ps[i]
         IN  IF ~IsDict(p) \/ ~IsDict(Get(p, "meta", EmptyDict))
             THEN [acc EXCEPT !.raised = TRUE]
             ELSE LET location == Get(Get(p, "meta", EmptyDict), "location", Null)
                  IN  IF location = Str(HOME)
                      THEN ScanParticipants(ps, i + 1,
                               [acc EXCEPT !.home_team = Get(p, "id", Null),
                                           !.home_team_name = Get(p, "name", Null)])
                      ELSE IF location = Str(AWAY)
                      THEN ScanParticipants(ps, i + 1,
                               [acc EXCEPT !.away_team = Get(p, "id", Null),
                                           !.away_team_name = Get(p, "name", Null)])
                      ELSE ScanParticipants(ps, i + 1, acc)

\* Lines 413-426: iterating a value that is not iterable raises.
Teams(f) ==
    LET participants == Get(f, "participants", EmptyList)
    IN  IF ~Iterable(participants) THEN [NoTeams EXCEPT !.raised = TRUE]
        ELSE ScanParticipants(ItemsOf(participants), 1, NoTeams)

NoFormations == [raised |-> FALSE, home_formation |-> Null, away_formation |-> Null]

\* Lines 433-437 from formation i on.
RECURSIVE ScanFormations(_, _, _)
ScanFormations(fs, i, acc) ==
    IF i > Len(fs) THEN acc
    ELSE LET fm == fs[i]
         IN  IF ~IsDict(fm) THEN [acc EXCEPT !.raised = TRUE]
             ELSE IF Get(fm, "location", Null) = Str(HOME)
                  THEN ScanFormations(fs, i + 1,
                           [acc EXCEPT !.home_formation = Get(fm, "formation", Null)])
             ELSE IF Get(fm, "location", Null) = Str(AWAY)
                  THEN ScanFormations(fs, i + 1,
                           [acc EXCEPT !.away_formation = Get(fm, "formation", Null)])
             ELSE ScanFormations(fs, i + 1, acc)

\* Lines 429-437: formations that are no list are left alone.
Formations(f) ==
    LET formations == Get(f, "formations", EmptyList)
    IN  IF IsList(formations) THEN ScanFormations(formations.l, 1, NoFormations)
        ELSE NoFormations

\* home_goals - away_goals if (both are not None) else None
GoalDiff(home_goals, away_goals) ==
    IF home_goals /= Null /\ away_goals /= Null
    THEN Num(home_goals.n - away_goals.n)
    ELSE Null

\* Outcome with >= for >: a draw counts as a home win.
OutcomeDrawIsHomeWin(h, a) == IF h >= a THEN "H" ELSE IF a > h THEN "A" ELSE "D"

\* "H" if home_goals > away_goals else "A" if away_goals > home_goals else "D"
Outcome(h, a) == IF h > a THEN "H" ELSE IF a > h THEN "A" ELSE "D"

\* ("H" ... "D") if (both are not None) else None
MatchResult(home_goals, away_goals) ==
    IF home_goals /= Null /\ away_goals /= Null
    THEN Outcome(home_goals.n, away_goals.n)
    ELSE "None"

\* The dict of lines 439-456.
Row(f, g, teams, forms) ==
    [fixture_id |-> Item(f, "id"),
     date |-> Or(Or(Get(f, "starting_at", Null), Get(f, "time", Null)), Get(f, "date", Null)),
     home_team_id |-> teams.home_team,
     home_team_name |-> teams.home_team_name,
     away_team_id |-> teams.away_team,
     away_team_name |-> teams.away_team_name,
     home_goals |-> Num(g.h),
     away_goals |-> Num(g.a),
     home_formation |-> forms.home_formation,
     away_formation |-> forms.away_formation,
     goal_diff |-> GoalDiff(Num(g.h), Num(g.a)),
     result |-> MatchResult(Num(g.h), Num(g.a))]

\* The body of the try of lines 407-456 raises: fixture["id"] on a value that
\* is no mapping or has no 'id', the extraction of the goals, the loops over
\* participants and formations.
BodyRaises(f) ==
    \/ ~IsDict(f)
    \/ ~HasKey(f, "id")
    \/ extract_goals_from_fixture(f).kind = "raise"
    \/ Teams(f).raised
    \/ Formations(f).raised

\* The row the body appends when it does not raise.
RowOf(f) == Row(f, extract_goals_from_fixture(f), Teams(f), Formations(f))

\* The except clause of lines 457-459 evaluates fixture.get('id'): it raises
\* in its turn when the fixture is no mapping.
HandlerRaises(f) == ~IsDict(f)

Participant(id, name, location) ==
    Dict(<<"id", "name", "meta">>,
         <<Num(id), Str(name), Dict(<<"location">>, <<Str(location)>>)>>)

Formation(location, formation) ==
    Dict(<<"location", "formation">>, <<Str(location), Str(formation)>>)

\* The raw fixtures parse_fixtures is run on.
RawFixtures ==
    { \* a complete fixture: 2-1, both teams, both formations
      Dict(<<"id", "starting_at", "scores", "participants", "formations">>,
           <<Num(1), Str(<<"2","0","2","4">>),
             List(<<ScoreEntry(CURRENT, HOME, Num(2)), ScoreEntry(CURRENT, AWAY, Num(1))>>),
             List(<<Participant(11, <<"A","G","F">>, HOME), Participant(12, <<"F","C","K">>, AWAY)>>),
             List(<<Formation(HOME, <<"4","-","4","-","2">>),
                    Formation(AWAY, <<"4","-","3","-","3">>)>>)>>),
      \* nothing but the id
      Dict(<<"id">>, <<Num(2)>>),
      \* an away win in flat fields, no id
      Dict(<<"home_score", "away_score">>, <<Num(0), Num(3)>>),
      \* an away win in flat fields, participants without location, formations null
      Dict(<<"id", "home_score", "away_score", "participants", "formations">>,
           <<Num(4), Num(0), Num(3),
             List(<<Dict(<<"id", "name">>, <<Num(11), Str(<<"A","G","F">>)>>)>>), Null>>),
      \* a draw as a score string, only the home team and the away formation
      Dict(<<"id", "score", "participants", "formations">>,
           <<Num(5), Str(<<"1","-","1">>),
             List(<<Participant(11, <<"A","G","F">>, HOME)>>),
             List(<<Formation(AWAY, <<"4","-","3","-","3">>)>>)>>),
      \* a scores list with an entry that is no mapping
      Dict(<<"id", "scores">>, <<Num(6), List(<<Num(5)>>)>>),
      \* participants is null
      Dict(<<"id", "participants">>, <<Num(7), Null>>),
      \* a participant whose meta is null
      Dict(<<"id", "participants">>,
           <<Num(8), List(<<Dict(<<"id", "meta">>, <<Num(11), Null>>)>>)>>),
      \* participants is empty, a formation without location
      Dict(<<"id", "participants", "formations">>,
           <<Num(9), EmptyList,
             List(<<Dict(<<"formation">>, <<Str(<<"4","-","4","-","2">>)>>)>>)>>),
      \* fixtures that are no mappings
      Null,
      List(<<Num(9)>>) }

ParseInit ==
    /\ raw \in UNION { [1..n -> RawFixtures] : n \in 0..MaxFixtures }
    /\ pos = 1
    /\ rows = <<>>
    /\ row_src = <<>>
    /\ parse_pc = "loop"

ParseIdle ==
    /\ raw = <<>>
    /\ pos = 1
    /\ rows = <<>>
    /\ row_src = <<>>
    /\ parse_pc = "idle"

notParse == <<leagueVars, seasonVars, fetchVars, goalsVars, mainVars>>

\* One turn of the loop whose body does not raise: the row is appended.
\* row_src remembers the position of the fixture each row comes from.
AppendRow ==
    /\ parse_pc = "loop"
    /\ pos <= Len(raw)
    /\ ~BodyRaises(raw[pos])
    /\ rows' = Append(rows, RowOf(raw[pos]))
    /\ row_src' = Append(row_src, pos)
    /\ pos' = pos + 1
    /\ UNCHANGED <<raw, parse_pc, notParse>>

\* One turn of the loop whose body raises: the except clause reports the
\* fixture and the loop continues.
SkipFixture ==
    /\ parse_pc = "loop"
    /\ pos <= Len(raw)
    /\ BodyRaises(raw[pos])
    /\ ~HandlerRaises(raw[pos])
    /\ pos' = pos + 1
    /\ UNCHANGED <<raw, rows, row_src, parse_pc, notParse>>

\* One turn of the loop whose body raises and whose except clause raises too:
\* the exception leaves parse_fixtures.
HandlerFails ==
    /\ parse_pc = "loop"
    /\ pos <= Len(raw)
    /\ BodyRaises(raw[pos])
    /\ HandlerRaises(raw[pos])
    /\ parse_pc' = "raised"
    /\ UNCHANGED <<raw, pos, rows, row_src, notParse>>

\* The loop is over: return pd.DataFrame(rows).
ParseReturns ==
    /\ parse_pc = "loop"
    /\ pos > Len(raw)
    /\ parse_pc' = "returned"
    /\ UNCHANGED <<raw, pos, rows, row_src, notParse>>

NextParse ==
    \/ AppendRow
    \/ SkipFixture
    \/ HandlerFails
    \/ ParseReturns

-----------------------------------------------------------------------------
(***************************************************************************)
(* The specifications: one function runs, the others are idle.             *)
(***************************************************************************)

InitLeague ==
    LeagueInit /\ SeasonIdle /\ FetchIdle /\ GoalsIdle /\ ParseIdle /\ MainIdle

SpecLeague == InitLeague /\ [][NextLeague]_vars

InitSeason ==
    LeagueIdle /\ SeasonInit /\ FetchIdle /\ GoalsIdle /\ ParseIdle /\ MainIdle

SpecSeason == InitSeason /\ [][NextSeason]_vars

InitFetch ==
    LeagueIdle /\ SeasonIdle /\ FetchInit /\ GoalsIdle /\ ParseIdle /\ MainIdle

SpecFetch == InitFetch /\ [][NextFetch]_vars

InitGoals ==
    LeagueIdle /\ SeasonIdle /\ FetchIdle /\ GoalsInit /\ ParseIdle /\ MainIdle

SpecGoals == InitGoals /\ [][NextGoals]_vars

InitParse ==
    LeagueIdle /\ SeasonIdle /\ FetchIdle /\ GoalsIdle /\ ParseInit /\ MainIdle

SpecParse == InitParse /\ [][NextParse]_vars

InitMain ==
    LeagueIdle /\ SeasonIdle /\ FetchIdle /\ GoalsIdle /\ ParseIdle /\ MainInit

SpecMain == InitMain /\ [][NextMain]_vars

-----------------------------------------------------------------------------
(***************************************************************************)
(* The properties                                                          *)
(***************************************************************************)

Min(S) == CHOOSE x \in S : \A y \in S : x <= y

\* Strategy n yields a definite pair of integers.
Yields(n, f) == Strategy(n, f).kind = "ret"

\* The pair of the first strategy, in the order 1..6, that yields one, and
\* (0, 0) when none does.
FirstDefinitePair(f) ==
    LET yielding == {n \in 1..6 : Yields(n, f)}
    IN  IF yielding = {} THEN Ret(0, 0) ELSE Strategy(Min(yielding), f)

\* C1: for every fixture the extractor returns the pair of the first strategy,
\* in the fixed order, that yields a definite pair, and (0, 0) when none does.
C1_ReturnsFirstDefinitePair ==
    goals_pc \in {"returned", "raised"} => goals = FirstDefinitePair(fixture)

\* C1, for the calls that return: the pair returned is that of the first
\* strategy that yields one, and a complete CURRENT scores list wins over
\* flat fields that disagree with it.
C1_OrderWhenItReturns ==
    goals_pc = "returned" =>
        /\ goals = FirstDefinitePair(fixture)
        /\ Yields(1, fixture) /\ Yields(2, fixture) => goals = ScoresList(fixture)

\* C9: the extractor never raises, whatever the fixture mapping holds.
C9_NeverRaises == goals_pc /= "raised"

\* The positions of the fixtures, from i on, whose extraction does not raise.
RECURSIVE KeptPositions(_, _)
KeptPositions(fs, i) ==
    IF i > Len(fs) THEN <<>>
    ELSE IF BodyRaises(fs[i]) THEN KeptPositions(fs, i + 1)
    ELSE <<i>> \o KeptPositions(fs, i + 1)

\* C2: parse_fixtures never raises, and returns one record per fixture whose
\* extraction does not raise, in the original order, whatever makes the
\* others raise.
C2_SkipsAloneAndNeverRaises ==
    /\ parse_pc /= "raised"
    /\ parse_pc = "returned" =>
          /\ row_src = KeptPositions(raw, 1)
          /\ rows = [i \in 1..Len(row_src) |-> RowOf(raw[row_src[i]])]

\* C2, for the batches of mappings: what is returned is one record per
\* fixture whose extraction does not raise, in the original order.
C2_MappingsAreSkippedAlone ==
    (\A i \in 1..Len(raw) : IsDict(raw[i])) =>
        /\ parse_pc /= "raised"
        /\ parse_pc = "returned" =>
              /\ row_src = KeptPositions(raw, 1)
              /\ rows = [i \in 1..Len(row_src) |-> RowOf(raw[row_src[i]])]

\* ss is sorted descending by starting_at, and seasons of equal starting_at
\* keep the order they have in `of`.
IsSortedDescending(ss, of) ==
    /\ Len(ss) = Len(of)
    /\ \A x \in 1..Len(of) : \E y \in 1..Len(ss) : ss[y] = of[x]
    /\ \A x, y \in 1..Len(ss) :
          x < y => /\ ~StrLess(SortKey(ss[x]), SortKey(ss[y]))
                   /\ SortKey(ss[x]) = SortKey(ss[y]) => ss[x].id < ss[y].id

\* The order C3 states: the first is_current season of the sorted order in
\* front, every other season behind it in its sorted order.
FirstCurrentInFront(sorted) ==
    LET current == {i \in 1..Len(sorted) : sorted[i].is_current}
    IN  IF current = {} THEN sorted
        ELSE <<sorted[Min(current)]>> \o SubSeq(sorted, 1, Min(current) - 1)
                 \o SubSeq(sorted, Min(current) + 1, Len(sorted))

\* C3: the probe order is the seasons sorted descending by starting_at with
\* the first is_current season moved to the front, a permutation of the
\* seasons.
C3_ProbeOrder ==
    probe_order /= <<>> =>
        /\ \E sorted \in {SortedDescending(seasons, <<>>)} :
              /\ IsSortedDescending(sorted, seasons)
              /\ probe_order = FirstCurrentInFront(sorted)
        /\ Len(probe_order) = Len(seasons)
        /\ \A i \in 1..Len(seasons) : \E j \in 1..Len(probe_order) : probe_order[j] = seasons[i]

\* C3, for the lists with at most one is_current season: there the order is
\* the one C3 states.
C3_ProbeOrderWithOneCurrent ==
    /\ probe_order /= <<>>
    /\ Cardinality({i \in 1..Len(seasons) : seasons[i].is_current}) <= 1
    => /\ IsSortedDescending(SortedDescending(seasons, <<>>), seasons)
       /\ probe_order = FirstCurrentInFront(SortedDescending(seasons, <<>>))

RECURSIVE PagesConcatenated(_)
PagesConcatenated(reqs) ==
    IF reqs = <<>> THEN <<>> ELSE Head(reqs).batch \o PagesConcatenated(Tail(reqs))

\* C5: the pages requested are 1, 2, 3, ... each once; a page is followed by
\* another only if it arrived with has_more; with max_pages > 0 no more than
\* max_pages are requested; a fetch without a failure returns the pages
\* concatenated in page order and, for the max_pages the claim speaks of
\* (0: no cap, or a positive cap), ends after a page without has_more or
\* after max_pages pages.
C5_PagesInOrder ==
    /\ \A i \in 1..Len(requests) : requests[i].page = i
    /\ \A i \in 1..(Len(requests) - 1) : requests[i].ok /\ requests[i].has_more
    /\ max_pages > 0 => Len(requests) <= max_pages
    /\ fetch_pc = "loop" => page = Len(requests) + 1
    /\ (fetch_pc = "done" /\ \A i \in 1..Len(requests) : requests[i].ok) =>
          /\ fetch_result = ReturnList(PagesConcatenated(requests))
          /\ max_pages >= 0 =>
                \/ Len(requests) > 0 /\ ~requests[Len(requests)].has_more
                \/ max_pages > 0 /\ Len(requests) = max_pages
    /\ (/\ Len(requests) >= 2
        /\ requests[1].ok /\ requests[1].has_more
        /\ requests[2].ok /\ ~requests[2].has_more) => Len(requests) = 2

\* C5: page 1 arrived with has_more and page 2 without, with no cap: two
\* requests, both pages returned.
C5_Witness ==
    /\ fetch_pc = "done"
    /\ max_pages = 0
    /\ Len(requests) = 2
    /\ requests[1].ok /\ requests[1].has_more
    /\ requests[2].ok /\ ~requests[2].has_more
    /\ fetch_result = ReturnList(<<11, 12, 21>>)

\* C5: the cap stops the fetch while the service has more pages.
C5_WitnessCap ==
    /\ fetch_pc = "done"
    /\ max_pages = 2
    /\ Len(requests) = 2
    /\ requests[2].ok /\ requests[2].has_more
    /\ fetch_result = ReturnList(<<11, 21, 22>>)

\* C6: a request that failed is the last one, and the fetch returns None.
C6_FailureReturnsNone ==
    \A i \in 1..Len(requests) :
        ~requests[i].ok => /\ i = Len(requests)
                           /\ fetch_pc = "done"
                           /\ fetch_result = ReturnNone

\* C6: two pages arrived, the third request failed: None is returned.
C6_Witness ==
    /\ fetch_pc = "done"
    /\ Len(requests) = 3
    /\ ~requests[3].ok
    /\ fixtures = <<11, 12, 21>>
    /\ fetch_result.none

\* The four tiers as C7 states them, on the name in lower case.
ClaimedTier(t, league) ==
    LET name == IF league.name = Null THEN <<>> ELSE league.name.s
        lower == Lower(name)
    IN  CASE t = 1 -> Contains(SUPERLIGA, lower) /\ ~Contains(PLAY, lower)
          [] t = 2 -> Lower(Strip(name)) = SUPERLIGA
          [] t = 3 -> Contains(SUPER, lower) /\ ~Contains(PLAY, lower)
          [] OTHER -> Contains(DENMARK, lower)

\* C7: the id returned is that of the first entry, in list order, that
\* matches the earliest tier any entry matches; None when no entry matches
\* any tier.
C7_FirstMatchAtEarliestTier ==
    league_pc = "done" =>
        LET tiers == {t \in 1..4 : \E i \in 1..Len(leagues) : ClaimedTier(t, leagues[i])}
        IN  IF tiers = {} THEN league_id = None
            ELSE league_id =
                   leagues[Min({i \in 1..Len(leagues) : ClaimedTier(Min(tiers), leagues[i])})].id

\* C7: a 'Denmark 1' entry and a 'Superliga Play-offs' entry come before the
\* 'Superliga' entry, which is selected.
C7_Witness ==
    /\ league_pc = "done"
    /\ Len(leagues) = 3
    /\ ClaimedTier(4, leagues[1]) /\ ~ClaimedTier(1, leagues[1])
    /\ Contains(PLAY, Lower(LeagueName(leagues[2]))) /\ Contains(SUPERLIGA, Lower(LeagueName(leagues[2])))
    /\ ClaimedTier(1, leagues[3])
    /\ league_id = leagues[3].id

\* C7: only the 'denmark' tier matches.
C7_WitnessDenmark ==
    /\ league_pc = "done"
    /\ Len(leagues) = 2
    /\ \A t \in 1..3, i \in 1..2 : ~ClaimedTier(t, leagues[i])
    /\ ClaimedTier(4, leagues[2])
    /\ league_id = leagues[2].id

\* The results of the fetches that succeeded, concatenated in season order.
RECURSIVE SucceededConcatenated(_)
SucceededConcatenated(log) ==
    IF log = <<>> THEN <<>>
    ELSE (IF Head(log).returned.none THEN <<>> ELSE Head(log).returned.val)
             \o SucceededConcatenated(Tail(log))

\* C8: the seasons are fetched in list order; the run goes past the fetches
\* only when every season was fetched, whichever failed; what is handed to
\* parse_fixtures is the results of the fetches that succeeded, concatenated
\* in season order.
C8_FailedSeasonIsSkipped ==
    /\ Len(fetch_log) <= Len(season_ids)
    /\ \A i \in 1..Len(fetch_log) : fetch_log[i].sid = season_ids[i]
    /\ (main_pc \in {"parse", "return_false"} /\ fetch_log /= <<>>) =>
          Len(fetch_log) = Len(season_ids)
    /\ main_pc = "parse" => handed = SucceededConcatenated(fetch_log)
    /\ (main_pc = "return_false" /\ fetch_log /= <<>>) =>
          SucceededConcatenated(fetch_log) = <<>>

\* C8: of three seasons the second fails; the fixtures of the first and of
\* the third are handed to parse_fixtures.
C8_Witness ==
    /\ main_pc = "parse"
    /\ Len(fetch_log) = 3
    /\ ~fetch_log[1].returned.none
    /\ fetch_log[2].returned.none
    /\ ~fetch_log[3].returned.none
    /\ handed = <<11, 31, 32>>

\* No strategy finds a score in the fixture.
NoScore(f) == \A n \in 1..6 : Strategy(n, f).kind = "miss"

\* C10: every record has goal_diff and result; goal_diff is home_goals -
\* away_goals, result is H iff home_goals > away_goals, A iff away_goals >
\* home_goals, D otherwise; the record of a fixture without a score has
\* goals (0, 0), goal_diff 0 and result D.
C10_ResultDerivation ==
    \A i \in 1..Len(rows) :
        LET r == rows[i]
            h == r.home_goals.n
            a == r.away_goals.n
        IN  /\ IsNumber(r.home_goals) /\ IsNumber(r.away_goals)
            /\ r.goal_diff /= Null /\ r.result /= "None"
            /\ r.goal_diff = Num(h - a)
            /\ r.result \in {"H", "A", "D"}
            /\ r.result = "H" <=> h > a
            /\ r.result = "A" <=> a > h
            /\ NoScore(raw[row_src[i]]) =>
                  h = 0 /\ a = 0 /\ r.goal_diff = Num(0) /\ r.result = "D"

\* C10: a home win, an away win and a fixture without a score, each with
\* its record.
C10_Witness ==
    /\ parse_pc = "returned"
    /\ Len(rows) = 3
    /\ rows[1].home_goals = Num(2) /\ rows[1].away_goals = Num(1) /\ rows[1].result = "H"
    /\ rows[2].home_goals = Num(0) /\ rows[2].away_goals = Num(3) /\ rows[2].result = "A"
    /\ NoScore(raw[3]) /\ rows[3].result = "D" /\ rows[3].goal_diff = Num(0)

\* The entries of a list value, none for any other value.
Entries(v) == IF IsList(v) THEN { v.l[i] : i \in 1..Len(v.l) } ELSE {}

\* The fixture names a team for the side: a participant whose meta has that
\* location.
HasTeam(f, side) ==
    \E p \in Entries(Get(f, "participants", Null)) :
        /\ IsDict(p)
        /\ IsDict(Get(p, "meta", Null))
        /\ Get(Get(p, "meta", Null), "location", Null) = Str(side)

\* The fixture names a formation for the side.
HasFormation(f, side) ==
    \E fm \in Entries(Get(f, "formations", Null)) :
        IsDict(fm) /\ Get(fm, "location", Null) = Str(side)

\* A participant mapping whose location metadata is there (meta is a
\* mapping) or not (meta is missing or null).
ParticipantEntry(p) ==
    IsDict(p) /\ (Get(p, "meta", Null) = Null \/ IsDict(Get(p, "meta", Null)))

\* A fixture with an id and extractable goals whose participants and
\* formations are missing, null, or lists of mappings: nothing but a team or
\* a formation can be absent from it.
OnlyTeamsOrFormationsAbsent(f) ==
    /\ IsDict(f) /\ HasKey(f, "id")
    /\ extract_goals_from_fixture(f).kind /= "raise"
    /\ LET participants == Get(f, "participants", Null)
       IN  \/ participants = Null
           \/ IsList(participants) /\ \A p \in Entries(participants) : ParticipantEntry(p)
    /\ LET formations == Get(f, "formations", Null)
       IN  \/ formations = Null
           \/ IsList(formations) /\ \A fm \in Entries(formations) : IsDict(fm)

\* The team and formation fields of record r are null for each side the
\* fixture f names no team or formation for.
NullWhereAbsent(f, r) ==
    /\ ~HasTeam(f, HOME) => r.home_team_id = Null /\ r.home_team_name = Null
    /\ ~HasTeam(f, AWAY) => r.away_team_id = Null /\ r.away_team_name = Null
    /\ ~HasFormation(f, HOME) => r.home_formation = Null
    /\ ~HasFormation(f, AWAY) => r.away_formation = Null

\* C11: a fixture from which only teams or formations are absent
\* (participants or formations missing, null, empty, without an entry for a
\* side, or with an entry without location metadata) is never skipped: once
\* the loop is past it, it has its record, and the fields of what is absent
\* are null in that record.
C11_AbsenceNeverSkips ==
    \A i \in 1..Len(raw) :
        (i < pos /\ OnlyTeamsOrFormationsAbsent(raw[i])) =>
            \E j \in 1..Len(row_src) :
                row_src[j] = i /\ NullWhereAbsent(raw[i], rows[j])

\* C11, for the fixtures whose participants are not null and hold no entry
\* with a null meta: such a fixture has its record, and every record has
\* null fields for what its fixture does not name.
C11_AbsenceInListsGivesNulls ==
    /\ \A j \in 1..Len(rows) : NullWhereAbsent(raw[row_src[j]], rows[j])
    /\ \A i \in 1..Len(raw) :
          ( /\ i < pos
            /\ OnlyTeamsOrFormationsAbsent(raw[i])
            /\ ~(HasKey(raw[i], "participants") /\ Item(raw[i], "participants") = Null)
            /\ \A p \in Entries(Get(raw[i], "participants", Null)) :
                   ~(HasKey(p, "meta") /\ Item(p, "meta") = Null) ) =>
              \E j \in 1..Len(row_src) : row_src[j] = i

=============================================================================
